---- MODULE Spec2Model ----
(***************************************************************************)
(* OSCE Live Skill Review (src/streamlit_app.py): a Streamlit script.      *)
(*                                                                         *)
(* The program is one script that the framework runs from top to bottom    *)
(* once per user gesture (a click, a form submission, a change of a        *)
(* widget) and once more whenever the script calls st.experimental_rerun.  *)
(* Its state is st.session_state (the variables below that carry the       *)
(* source's names) together with the values the framework keeps for the    *)
(* widgets: the file held by the file uploader and the photo held by the   *)
(* camera widget, both returned in every run until the user removes them.  *)
(* A button or form submission is true only in the run its click triggers. *)
(*                                                                         *)
(* Absent values (Python None) are the empty sequence, present values x    *)
(* are <<x>>.  Texts are sequences of string fragments, so that trimming   *)
(* and joining are computed rather than assumed.                           *)
(***************************************************************************)
EXTENDS Integers, Sequences, FiniteSets, TLC

VARIABLES
    session_status,     \* st.session_state.session_status
    transcript,         \* st.session_state.transcript
    rubric,             \* st.session_state.rubric
    suggested_update,   \* st.session_state.suggested_update
    start_time,         \* st.session_state.start_time
    duration_seconds,   \* st.session_state.duration_seconds
    user_details,       \* st.session_state.user_details
    summary_text,       \* st.session_state.summary_text
    uploaded,           \* the file the sidebar file_uploader holds
    camera_file,        \* the photo the camera_input widget holds
    saved_file,         \* the JSON document last produced for download
    op,                 \* history: the last gesture, where gestures are recorded
    trace_ops           \* whether this behaviour records its gestures in op

vars == <<session_status, transcript, rubric, suggested_update, start_time,
          duration_seconds, user_details, summary_text, uploaded,
          camera_file, saved_file, op, trace_ops>>

-----------------------------------------------------------------------------
(* Bounds of the model *)

MaxSkills == 1          \* items of INITIAL_RUBRIC the model keeps
MaxTranscript == 1      \* longest transcript the model lets a gesture leave
MaxLines == 4           \* longest transcript handed to generate_local_summary alone
SummarySkills == 2      \* items of the rubric handed to generate_local_summary alone

-----------------------------------------------------------------------------
(* Optional values *)

None == << >>
Some(x) == <<x>>
IsNone(o) == o = << >>
Val(o) == o[1]

-----------------------------------------------------------------------------
(* Data models / constants: lines 18-48 *)

PENDING == "pending"
MET == "met"
NOT_MET == "not_met"
RubricStatus == <<PENDING, MET, NOT_MET>>
StatusSet == {PENDING, MET, NOT_MET}

RubricItem(id, skill, status) == [id |-> id, skill |-> skill, status |-> status]
TranscriptEntry(speaker, text, ts) == [speaker |-> speaker, text |-> text, ts |-> ts]
UserDetails(name, phone, designation) ==
    [name |-> name, phone |-> phone, designation |-> designation]

TEMPLATE ==
    << RubricItem("hand_hygiene", "Hand hygiene", PENDING),
       RubricItem("introduce_self", "Introduces self to patient", PENDING),
       RubricItem("explain_procedure", "Explains procedure", PENDING),
       RubricItem("obtain_consent", "Obtains consent", PENDING),
       RubricItem("maintain_privacy", "Maintains privacy and dignity", PENDING) >>

\* The template, cut to the model's bound.
INITIAL_RUBRIC == SubSeq(TEMPLATE, 1, MaxSkills)

\* [RubricItem(**asdict(i)) for i in INITIAL_RUBRIC]: a copy, item by item.
FreshRubric == [i \in 1..Len(INITIAL_RUBRIC) |->
                  RubricItem(INITIAL_RUBRIC[i].id, INITIAL_RUBRIC[i].skill,
                             INITIAL_RUBRIC[i].status)]

Ids(rb) == {rb[i].id : i \in 1..Len(rb)}

-----------------------------------------------------------------------------
(* Texts *)

Whitespace == {" ", "\t", "\n"}

RECURSIVE LStrip(_)
LStrip(t) == IF t # << >> /\ Head(t) \in Whitespace THEN LStrip(Tail(t)) ELSE t

RECURSIVE RStrip(_)
RStrip(t) == IF t # << >> /\ t[Len(t)] \in Whitespace
             THEN RStrip(SubSeq(t, 1, Len(t) - 1)) ELSE t

\* str.strip()
Strip(t) == RStrip(LStrip(t))

\* sep.join(parts), parts a sequence of texts
RECURSIVE Join(_, _)
Join(parts, sep) ==
    IF parts = << >> THEN << >>
    ELSE IF Len(parts) = 1 THEN parts[1]
    ELSE parts[1] \o sep \o Join(Tail(parts), sep)

\* [f(x) for x in s if p(x)], for the three comprehensions of the summary
RECURSIVE SkillsWith(_, _)
SkillsWith(rb, status) ==
    IF rb = << >> THEN << >>
    ELSE (IF Head(rb).status = status THEN << <<Head(rb).skill>> >> ELSE << >>)
         \o SkillsWith(Tail(rb), status)

RECURSIVE TextsOf(_, _)
TextsOf(tr, speaker) ==
    IF tr = << >> THEN << >>
    ELSE (IF Head(tr).speaker = speaker THEN <<Head(tr).text>> ELSE << >>)
         \o TextsOf(Tail(tr), speaker)

\* s[-n:]
\* Mutant: the first n elements instead of the last n.
LastN_First(s, n) == IF Len(s) <= n THEN s ELSE SubSeq(s, 1, n)

LastN(s, n) == IF Len(s) <= n THEN s ELSE SubSeq(s, Len(s) - n + 1, Len(s))

-----------------------------------------------------------------------------
(* generate_local_summary: lines 71-89.  It reads the participant's name   *)
(* from st.session_state, passed here as ud.  The result is the sequence   *)
(* of lines that "\n\n".join puts together.                                *)

generate_local_summary(tr, rb, ud) ==
    LET strengths == SkillsWith(rb, MET)
        needs == SkillsWith(rb, NOT_MET)
        student_lines == TextsOf(tr, "user")
        recent == IF Len(student_lines) >= 1 THEN LastN(student_lines, 3) ELSE << >>
        name == IF ~IsNone(ud) THEN Val(ud).name ELSE "Student"
    IN  << <<"Dear ", name, ",">> >>
        \o (IF strengths # << >>
            THEN << <<"Strengths: ">> \o Join(strengths, <<", ">>) \o <<".">> >>
            ELSE << >>)
        \o (IF needs # << >>
            THEN << <<"Areas for improvement: ">> \o Join(needs, <<", ">>) \o <<".">> >>
            ELSE << >>)
        \o (IF recent # << >>
            THEN << <<"Notes from the session: ">> \o Join(recent, <<" / ">>) >>
            ELSE << >>)
        \o << <<"Suggestions: Practice the identified areas; follow checklist steps clearly during the examination.">> >>

-----------------------------------------------------------------------------
(* Session codec: lines 57-61 and 128-135.  A document is the JSON value   *)
(* json.dumps writes and json.loads reads back: an object whose lists hold *)
(* objects (records; a key an object lacks is no field of the record), or  *)
(* a payload that is no JSON object at all.                                *)

NotJson == [json |-> FALSE]

\* dataclasses.asdict: field by field
asdict(r) == [k \in DOMAIN r |-> r[k]]

\* The session_dump of "Download session JSON" (lines 129-134) and of
\* "Save session to local JSON" (lines 320-325).
session_dump(ud, tr, rb, sm) ==
    [user_details |-> IF ~IsNone(ud) THEN Some(asdict(Val(ud))) ELSE None,
     transcript |-> [i \in 1..Len(tr) |-> asdict(tr[i])],
     rubric |-> [i \in 1..Len(rb) |-> asdict(rb[i])],
     summary |-> sm]

\* json.dumps(session).encode("utf-8"): the bytes of a JSON object
save_session_to_bytes(session) == [json |-> TRUE, value |-> session]

\* json.loads raises on a payload that is not JSON; data.get raises on a
\* JSON value that is not an object.
Parses(b) == b.json
load_session_from_bytes(b) == b.value

\* TranscriptEntry(**t): every field required, no other key accepted.
TranscriptEntryOk(t) == DOMAIN t = {"speaker", "text", "ts"}
\* RubricItem(**r): id and skill required, status defaults to pending.
RubricItemOk(r) == {"id", "skill"} \subseteq DOMAIN r
                   /\ DOMAIN r \subseteq {"id", "skill", "status"}
RubricItemFrom(r) ==
    RubricItem(r.id, r.skill, IF "status" \in DOMAIN r THEN r.status ELSE PENDING)
\* UserDetails(**ud)
UserDetailsOk(ud) == DOMAIN ud = {"name", "phone", "designation"}

TranscriptOk(objs) == \A i \in 1..Len(objs) : TranscriptEntryOk(objs[i])
RubricOk(objs) == \A i \in 1..Len(objs) : RubricItemOk(objs[i])

-----------------------------------------------------------------------------
(* One run of the script.  s is st.session_state plus the widget values    *)
(* plus the run's control state: ctl is "run" while the script executes,   *)
(* "rerun" after st.experimental_rerun(), "crash" after an uncaught        *)
(* exception; rendered collects the keys of the selectboxes the run made;  *)
(* fired tells whether the handler of the gesture e was executed.  e.t is  *)
(* what now_ts() returns during the gesture.                               *)

\* A block of the script runs unless the run has ended before it: after
\* st.experimental_rerun() or an uncaught exception nothing more executes.
Running(s) == s.ctl = "run"

\* Mutant: the load also restores the document's summary.
LoadSaved_RestoresSummary(s, e) ==
    IF IsNone(s.uploaded) THEN s
    ELSE LET b == Val(s.uploaded) IN
         IF ~Parses(b) THEN s
         ELSE LET data == load_session_from_bytes(b) IN
              IF ~TranscriptOk(data.transcript) THEN s
              ELSE LET s1 == [s EXCEPT !.transcript =
                                [i \in 1..Len(data.transcript) |->
                                   TranscriptEntry(data.transcript[i].speaker,
                                                   data.transcript[i].text,
                                                   data.transcript[i].ts)]]
                   IN
                   IF ~RubricOk(data.rubric) THEN s1
                   ELSE LET s2 == [s1 EXCEPT !.rubric =
                                     [i \in 1..Len(data.rubric) |->
                                        RubricItemFrom(data.rubric[i])]]
                            ud == data.user_details
                        IN
                        IF ~IsNone(ud) /\ ~UserDetailsOk(Val(ud)) THEN s2
                        ELSE [s2 EXCEPT
                                !.user_details =
                                    IF ~IsNone(ud)
                                    THEN Some(UserDetails(Val(ud).name, Val(ud).phone,
                                                          Val(ud).designation))
                                    ELSE @,
                                !.summary_text = data.summary,
                                !.session_status = "ended"]

\* Load saved session: lines 113-126.  The uploader returns its file in
\* every run until the user removes it.
LoadSaved(s, e) ==
    IF IsNone(s.uploaded) THEN s
    ELSE LET b == Val(s.uploaded) IN
         IF ~Parses(b) THEN s
         ELSE LET data == load_session_from_bytes(b) IN
              IF ~TranscriptOk(data.transcript) THEN s
              ELSE LET s1 == [s EXCEPT !.transcript =
                                [i \in 1..Len(data.transcript) |->
                                   TranscriptEntry(data.transcript[i].speaker,
                                                   data.transcript[i].text,
                                                   data.transcript[i].ts)]]
                   IN
                   IF ~RubricOk(data.rubric) THEN s1
                   ELSE LET s2 == [s1 EXCEPT !.rubric =
                                     [i \in 1..Len(data.rubric) |->
                                        RubricItemFrom(data.rubric[i])]]
                            ud == data.user_details
                        IN
                        IF ~IsNone(ud) /\ ~UserDetailsOk(Val(ud)) THEN s2
                        ELSE [s2 EXCEPT
                                !.user_details =
                                    IF ~IsNone(ud)
                                    THEN Some(UserDetails(Val(ud).name, Val(ud).phone,
                                                          Val(ud).designation))
                                    ELSE @,
                                !.session_status = "ended"]

SnapshotText == <<"Snapshot captured (size ", "n", " bytes)">>

\* The transcript the load assigns at line 118, when it gets that far.
TranscriptLoads(b) ==
    Parses(b) /\ TranscriptOk(load_session_from_bytes(b).transcript)

LoadedTranscript(b) ==
    LET data == load_session_from_bytes(b) IN
    [i \in 1..Len(data.transcript) |->
       TranscriptEntry(data.transcript[i].speaker, data.transcript[i].text,
                       data.transcript[i].ts)]

\* The load raises, and the except clause at lines 125-126 reports it.
LoadFails(b) ==
    \/ ~Parses(b)
    \/ LET data == load_session_from_bytes(b) IN
          \/ ~TranscriptOk(data.transcript)
          \/ ~RubricOk(data.rubric)
          \/ ~IsNone(data.user_details) /\ ~UserDetailsOk(Val(data.user_details))

\* Mutant: the snapshot note replaces the transcript.
CameraSnapshot_Replace(s, e) ==
    IF ~Running(s) THEN s ELSE
    IF s.camera_file
    THEN [s EXCEPT !.transcript = << TranscriptEntry("system", SnapshotText, e.t) >>]
    ELSE s

\* Download session JSON: lines 128-135.
DownloadSession(s, e) ==
    IF e.kind = "download"
    THEN [s EXCEPT !.saved_file =
                     Some(save_session_to_bytes(
                            session_dump(s.user_details, s.transcript, s.rubric,
                                         s.summary_text))),
                   !.fired = TRUE]
    ELSE s

\* Welcome form: lines 150-165.
WelcomeForm(s, e) ==
    IF e.kind = "welcome"
    THEN IF e.name = "" THEN [s EXCEPT !.fired = TRUE]
         ELSE [s EXCEPT !.user_details = Some(UserDetails(e.name, e.phone, e.designation)),
                        !.duration_seconds = Some(e.duration * 60),
                        !.session_status = "idle",
                        !.fired = TRUE,
                        !.ctl = "rerun"]
    ELSE s

\* Mutant: End Session puts the session back to idle.
StartOrEnd_EndToIdle(s, e) ==
    IF s.session_status # "live"
    THEN IF e.kind = "start"
         THEN [s EXCEPT !.transcript = << >>,
                        !.rubric = FreshRubric,
                        !.suggested_update = None,
                        !.summary_text = None,
                        !.start_time = Some(e.t),
                        !.session_status = "live",
                        !.fired = TRUE,
                        !.ctl = "rerun"]
         ELSE s
    ELSE IF e.kind = "end"
         THEN [s EXCEPT !.session_status = "idle",
                        !.summary_text = Some(generate_local_summary(
                                                s.transcript, s.rubric, s.user_details)),
                        !.fired = TRUE]
         ELSE s

\* Mutant: Start New Session is offered in every status.
StartOrEnd_AlwaysStart(s, e) ==
    IF e.kind = "start"
    THEN [s EXCEPT !.transcript = << >>,
                   !.rubric = FreshRubric,
                   !.suggested_update = None,
                   !.summary_text = None,
                   !.start_time = Some(e.t),
                   !.session_status = "live",
                   !.fired = TRUE,
                   !.ctl = "rerun"]
    ELSE IF s.session_status = "live" /\ e.kind = "end"
         THEN [s EXCEPT !.session_status = "ended",
                        !.summary_text = Some(generate_local_summary(
                                                s.transcript, s.rubric, s.user_details)),
                        !.fired = TRUE]
         ELSE s

\* Start New Session / End Session: lines 187-201.
StartOrEnd(s, e) ==
    IF s.session_status # "live"
    THEN IF e.kind = "start"
         THEN [s EXCEPT !.transcript = << >>,
                        !.rubric = FreshRubric,
                        !.suggested_update = None,
                        !.summary_text = None,
                        !.start_time = Some(e.t),
                        !.session_status = "live",
                        !.fired = TRUE,
                        !.ctl = "rerun"]
         ELSE s
    ELSE IF e.kind = "end"
         THEN [s EXCEPT !.session_status = "ended",
                        !.summary_text = Some(generate_local_summary(
                                                s.transcript, s.rubric, s.user_details)),
                        !.fired = TRUE]
         ELSE s


\* Camera snapshot: lines 211-216.  The camera widget returns its photo in
\* every run until the user clears it.
CameraSnapshot(s, e) ==
    IF ~Running(s) THEN s ELSE
    IF s.camera_file
    THEN [s EXCEPT !.transcript = Append(@, TranscriptEntry("system", SnapshotText, e.t))]
    ELSE s

\* add_transcript form: lines 224-232.
AddTranscript(s, e) ==
    IF ~Running(s) THEN s ELSE
    IF e.kind = "add_transcript"
    THEN IF Strip(e.text) # << >>
         THEN [s EXCEPT !.transcript =
                          Append(@, TranscriptEntry(e.speaker, Strip(e.text), e.t)),
                        !.fired = TRUE,
                        !.ctl = "rerun"]
         ELSE [s EXCEPT !.fired = TRUE]
    ELSE s

\* One rubric selectbox: lines 243-248.  It shows the option at index, the
\* item's status, unless the user has just picked another option in it.
SelectboxValue(e, id, status) ==
    IF e.kind = "select" /\ e.skill = id THEN e.status ELSE status

\* Rubric write-back: lines 240-250, from item i on.  list.index raises on a
\* status that is no option; a key used twice raises DuplicateWidgetID.
RECURSIVE RubricLoop(_, _, _)
RubricLoop(s, e, i) ==
    IF i > Len(s.rubric) THEN s
    ELSE LET item == s.rubric[i] IN
         IF item.status \notin StatusSet \/ item.id \in s.rendered
         THEN [s EXCEPT !.ctl = "crash"]
         ELSE LET new_status == SelectboxValue(e, item.id, item.status) IN
              RubricLoop([s EXCEPT !.rubric[i].status = new_status,
                                   !.rendered = @ \cup {item.id},
                                   !.fired = @ \/ (e.kind = "select" /\ e.skill = item.id)],
                         e, i + 1)

RubricSelectboxes(s, e) == IF ~Running(s) THEN s ELSE RubricLoop(s, e, 1)

\* What an absent skill_choice prints as, and the id no item carries.
NoSkill == "None"

\* suggestion_form: lines 255-261.  The skill is one of the options, the ids
\* of the rubric; a selectbox without options returns None.
SuggestionForm(s, e) ==
    IF ~Running(s) THEN s ELSE
    IF e.kind = "propose"
       /\ (IF s.rubric = << >> THEN e.skill = NoSkill ELSE e.skill \in Ids(s.rubric))
    THEN [s EXCEPT !.suggested_update =
                     Some([skillId |-> e.skill, status |-> e.status,
                           reasoning |-> e.reasoning]),
                   !.fired = TRUE]
    ELSE s

\* Accept suggestion / Reject suggestion: lines 263-281.
AcceptOrReject(s, e) ==
    IF ~Running(s) THEN s ELSE
    IF IsNone(s.suggested_update) THEN s
    ELSE LET su == Val(s.suggested_update) IN
         IF e.kind = "accept"
         THEN [s EXCEPT !.rubric = [i \in 1..Len(@) |->
                                      IF @[i].id = su.skillId
                                      THEN [@[i] EXCEPT !.status = su.status]
                                      ELSE @[i]],
                        !.transcript = Append(@, TranscriptEntry("system",
                                          <<"Suggestion accepted for ", su.skillId>>, e.t)),
                        !.suggested_update = None,
                        !.fired = TRUE,
                        !.ctl = "rerun"]
         ELSE IF e.kind = "reject"
         THEN [s EXCEPT !.transcript = Append(@, TranscriptEntry("system",
                                          <<"Suggestion rejected for ", su.skillId>>, e.t)),
                        !.suggested_update = None,
                        !.fired = TRUE,
                        !.ctl = "rerun"]
         ELSE s

\* Mutant: the summary is computed in every run that finds the session ended.
SessionSummary_Eager(s, e) ==
    IF ~Running(s) THEN s ELSE
    IF s.session_status = "ended"
    THEN [s EXCEPT !.summary_text = Some(generate_local_summary(
                                           s.transcript, s.rubric, s.user_details))]
    ELSE s

\* Session Summary lazy check: lines 285-288.
SessionSummary(s, e) ==
    IF ~Running(s) THEN s ELSE
    IF s.session_status = "ended" /\ IsNone(s.summary_text)
    THEN [s EXCEPT !.summary_text = Some(generate_local_summary(
                                           s.transcript, s.rubric, s.user_details))]
    ELSE s

\* Save session to local JSON: lines 319-326.
SaveSession(s, e) ==
    IF ~Running(s) THEN s ELSE
    IF e.kind = "save"
    THEN [s EXCEPT !.saved_file =
                     Some(save_session_to_bytes(
                            session_dump(s.user_details, s.transcript, s.rubric,
                                         s.summary_text))),
                   !.fired = TRUE]
    ELSE s

\* Mutant: the clear also forgets when the session started.
ClearSessionData_DropsStart(s, e) ==
    IF ~Running(s) THEN s ELSE
    IF e.kind = "clear"
    THEN [s EXCEPT !.transcript = << >>,
                   !.rubric = FreshRubric,
                   !.summary_text = None,
                   !.start_time = None,
                   !.fired = TRUE]
    ELSE s

\* Clear transcript & rubric: lines 327-331.
ClearSessionData(s, e) ==
    IF ~Running(s) THEN s ELSE
    IF e.kind = "clear"
    THEN [s EXCEPT !.transcript = << >>,
                   !.rubric = FreshRubric,
                   !.summary_text = None,
                   !.fired = TRUE]
    ELSE s

\* Mark all pending as not met: lines 332-336.
BulkResolvePending(s, e) ==
    IF ~Running(s) THEN s ELSE
    IF e.kind = "bulk"
    THEN [s EXCEPT !.rubric = [i \in 1..Len(@) |->
                                 IF @[i].status = PENDING
                                 THEN [@[i] EXCEPT !.status = NOT_MET]
                                 ELSE @[i]],
                   !.fired = TRUE]
    ELSE s

\* Main app after welcome: lines 170-336.
MainApp(s, e) ==
    BulkResolvePending(
      ClearSessionData(
        SaveSession(
          SessionSummary(
            AcceptOrReject(
              SuggestionForm(
                RubricSelectboxes(
                  AddTranscript(
                    CameraSnapshot(
                      StartOrEnd(s, e), e), e), e), e), e), e), e), e), e)

\* The welcome gate: line 150 and line 170.
WelcomeGate(s, e) ==
    IF IsNone(s.user_details) THEN WelcomeForm(s, e) ELSE MainApp(s, e)

\* The whole script, once: lines 95-336.
Script(s, e) ==
    WelcomeGate(DownloadSession(LoadSaved([s EXCEPT !.ctl = "run", !.rendered = {}], e),
                                e), e)

\* A run with no gesture: what st.experimental_rerun() starts.
NoEvent(e) == [e EXCEPT !.kind = "rerun"]

\* The run st.experimental_rerun() starts when the run r has asked for it.
Rerun(r, e) == IF r.ctl = "rerun" THEN Script(r, NoEvent(e)) ELSE r

\* One gesture: the run it triggers and the rerun that run asks for.
Gesture(s, e) == Rerun(Script(s, e), e)

-----------------------------------------------------------------------------
(* Inputs *)

Times == {1}                            \* what now_ts() returns
Names == {"", "Ann"}
Durations == {10}                       \* minutes, the form's default
Speakers == {"user", "ai"}              \* the options of the Speaker selectbox
TextInputs == { <<" ">>, <<" ", "o", "k", " ">> }
SuggestedStatuses == {MET, NOT_MET}     \* the options of "Suggested status"
Reasonings == {"observed lapse"}

\* Documents a user may upload besides the ones the program wrote.
OkEntry == [speaker |-> "user", text |-> <<"o", "k">>, ts |-> 1]
DocReplay ==
    [json |-> TRUE,
     value |-> [user_details |-> None,
                transcript |-> <<OkEntry>>,
                rubric |-> << [id |-> "wound_care", skill |-> "Wound care",
                               status |-> MET] >>,
                summary |-> None]]
DocBadEntry ==
    [json |-> TRUE,
     value |-> [user_details |-> None,
                transcript |-> << [speaker |-> "user", ts |-> 1] >>,
                rubric |-> << [id |-> "hand_hygiene", skill |-> "Hand hygiene",
                               status |-> MET] >>,
                summary |-> None]]
DocBadRubric ==
    [json |-> TRUE,
     value |-> [user_details |-> None,
                transcript |-> <<OkEntry>>,
                rubric |-> << [id |-> "hand_hygiene", status |-> MET] >>,
                summary |-> None]]
DocBadUser ==
    [json |-> TRUE,
     value |-> [user_details |-> Some([name |-> "Bob"]),
                transcript |-> <<OkEntry>>,
                rubric |-> << [id |-> "hand_hygiene", skill |-> "Hand hygiene",
                               status |-> NOT_MET] >>,
                summary |-> None]]
\* A well-formed document that carries user details and a summary.
DocUser ==
    [json |-> TRUE,
     value |-> [user_details |-> Some([name |-> "Ann", phone |-> "555",
                                       designation |-> "Intern"]),
                transcript |-> << >>,
                rubric |-> << [id |-> "hand_hygiene", skill |-> "Hand hygiene",
                               status |-> NOT_MET] >>,
                summary |-> Some(<< <<"Dear Ann,">>, <<"Well done.">> >>)]]
\* A document every field of which is present, with one id used twice and
\* a status that is no option of the selectbox.
DocOddRubric ==
    [json |-> TRUE,
     value |-> [user_details |-> None,
                transcript |-> << >>,
                rubric |-> << [id |-> "hand_hygiene", skill |-> "Hand hygiene",
                               status |-> MET],
                              [id |-> "hand_hygiene", skill |-> "Hand hygiene",
                               status |-> "done"] >>,
                summary |-> None]]
Docs == {NotJson, DocReplay, DocBadEntry, DocBadRubric, DocBadUser, DocUser,
         DocOddRubric}

\* A gesture and its inputs; the fields a gesture does not use stay empty.
Event(kind, t) ==
    [kind |-> kind, t |-> t, name |-> "", phone |-> "", designation |-> "",
     duration |-> 0, speaker |-> "", text |-> << >>, skill |-> "", status |-> "",
     reasoning |-> ""]

-----------------------------------------------------------------------------
(* The state *)

\* st.session_state and the widgets, as the record the script works on.
Cur ==
    [session_status |-> session_status, transcript |-> transcript,
     rubric |-> rubric, suggested_update |-> suggested_update,
     start_time |-> start_time, duration_seconds |-> duration_seconds,
     user_details |-> user_details, summary_text |-> summary_text,
     uploaded |-> uploaded, camera_file |-> camera_file,
     saved_file |-> saved_file,
     ctl |-> "run", rendered |-> {}, fired |-> FALSE]

\* The state after the runs of one gesture.  A click counts only when the
\* run reached its button or form; the transcript stays within the bound.
Apply(r, e) ==
    /\ r.fired
    /\ Len(r.transcript) <= MaxTranscript
    /\ session_status' = r.session_status
    /\ transcript' = r.transcript
    /\ rubric' = r.rubric
    /\ suggested_update' = r.suggested_update
    /\ start_time' = r.start_time
    /\ duration_seconds' = r.duration_seconds
    /\ user_details' = r.user_details
    /\ summary_text' = r.summary_text
    /\ uploaded' = r.uploaded
    /\ camera_file' = r.camera_file
    /\ saved_file' = r.saved_file
    /\ op' = IF trace_ops THEN e ELSE op
    /\ trace_ops' = trace_ops

\* Session state helpers: lines 95-105.
Init ==
    /\ session_status = "idle"
    /\ transcript = << >>
    /\ rubric = FreshRubric
    /\ suggested_update = None
    /\ start_time = None
    /\ duration_seconds = None
    /\ user_details = None
    /\ summary_text = None
    /\ uploaded = None
    /\ camera_file = FALSE
    /\ saved_file = None
    /\ op = Event("init", 1)
    /\ trace_ops = FALSE

-----------------------------------------------------------------------------
(* The gestures *)

\* The user puts a file into the uploader (line 113).
UploadFile ==
    \E t \in Times : \E b \in Docs \cup {saved_file[i] : i \in 1..Len(saved_file)} :
        Apply(Gesture([Cur EXCEPT !.uploaded = Some(b), !.fired = TRUE],
                      Event("upload", t)), Event("upload", t))

\* The user removes the file from the uploader.
RemoveFile ==
    /\ ~IsNone(uploaded)
    /\ \E t \in Times :
        Apply(Gesture([Cur EXCEPT !.uploaded = None, !.fired = TRUE],
                      Event("remove_file", t)), Event("remove_file", t))

ClickDownload ==
    \E t \in Times : Apply(Gesture(Cur, Event("download", t)), Event("download", t))

\* "Clear saved session in memory" (lines 137-139) sets saved_session, which
\* nothing reads, and runs the page.
ClickClearSaved ==
    \E t \in Times :
        Apply(Gesture([Cur EXCEPT !.fired = TRUE], Event("clear_saved", t)), Event("clear_saved", t))

SubmitWelcome ==
    \E t \in Times, n \in Names, d \in Durations :
        LET e == [Event("welcome", t) EXCEPT !.name = n, !.phone = "555",
                                             !.designation = "Intern", !.duration = d]
        IN  Apply(Gesture(Cur, e), e)

ClickStart ==
    \E t \in Times : Apply(Gesture(Cur, Event("start", t)), Event("start", t))

ClickEnd ==
    \E t \in Times : Apply(Gesture(Cur, Event("end", t)), Event("end", t))

\* The user captures a photo with the camera widget (line 211).
TakePhoto ==
    /\ ~IsNone(user_details)
    /\ ~camera_file
    /\ \E t \in Times :
        Apply(Gesture([Cur EXCEPT !.camera_file = TRUE, !.fired = TRUE],
                      Event("take_photo", t)), Event("take_photo", t))

\* The user clears the photo.
ClearPhoto ==
    /\ camera_file
    /\ \E t \in Times :
        Apply(Gesture([Cur EXCEPT !.camera_file = FALSE, !.fired = TRUE],
                      Event("clear_photo", t)), Event("clear_photo", t))

SubmitTranscript ==
    \E t \in Times, sp \in Speakers, tx \in TextInputs :
        LET e == [Event("add_transcript", t) EXCEPT !.speaker = sp, !.text = tx]
        IN  Apply(Gesture(Cur, e), e)

\* The user picks another option in the selectbox of a rubric item.
SelectStatus ==
    \E t \in Times, i \in 1..Len(rubric), v \in StatusSet :
        LET e == [Event("select", t) EXCEPT !.skill = rubric[i].id, !.status = v]
        IN  /\ v # rubric[i].status
            /\ Apply(Gesture(Cur, e), e)

SubmitSuggestion ==
    \E t \in Times, k \in Ids(rubric) \cup {NoSkill}, st \in SuggestedStatuses,
       re \in Reasonings :
        LET e == [Event("propose", t) EXCEPT !.skill = k, !.status = st,
                                             !.reasoning = re]
        IN  Apply(Gesture(Cur, e), e)

ClickAccept ==
    \E t \in Times : Apply(Gesture(Cur, Event("accept", t)), Event("accept", t))

ClickReject ==
    \E t \in Times : Apply(Gesture(Cur, Event("reject", t)), Event("reject", t))

ClickSave ==
    \E t \in Times : Apply(Gesture(Cur, Event("save", t)), Event("save", t))

ClickClear ==
    \E t \in Times : Apply(Gesture(Cur, Event("clear", t)), Event("clear", t))

ClickBulk ==
    \E t \in Times : Apply(Gesture(Cur, Event("bulk", t)), Event("bulk", t))

Next ==
    \/ UploadFile
    \/ RemoveFile
    \/ ClickClearSaved
    \/ SubmitWelcome
    \/ ClickStart
    \/ ClickEnd
    \/ TakePhoto
    \/ ClearPhoto
    \/ SubmitTranscript
    \/ SelectStatus
    \/ SubmitSuggestion
    \/ ClickAccept
    \/ ClickReject
    \/ ClickClear
    \/ ClickBulk

Spec == Init /\ [][Next]_vars

\* The same program, with every gesture recorded in op.
InitOps ==
    /\ session_status = "idle"
    /\ transcript = << >>
    /\ rubric = FreshRubric
    /\ suggested_update = None
    /\ start_time = None
    /\ duration_seconds = None
    /\ user_details = None
    /\ summary_text = None
    /\ uploaded = None
    /\ camera_file = FALSE
    /\ saved_file = None
    /\ op = Event("init", 1)
    /\ trace_ops = TRUE

SpecOps == InitOps /\ [][Next]_vars

\* The program with its two ways of writing the session out, and the
\* gestures that change what is written and what a load overwrites.
NextCodec ==
    \/ UploadFile
    \/ RemoveFile
    \/ ClickDownload
    \/ ClickSave
    \/ SubmitWelcome
    \/ ClickStart
    \/ SelectStatus

SpecCodec == Init /\ [][NextCodec]_vars

-----------------------------------------------------------------------------
(* generate_local_summary on its own: the inputs are drawn from bounded     *)
(* sets, and the one step is the call at line 200 (and line 287).          *)

SummaryEntries ==
    { TranscriptEntry("user", <<"a">>, 1), TranscriptEntry("user", <<"b">>, 1),
      TranscriptEntry("ai", <<"c">>, 1) }

SummaryTranscripts ==
    UNION { [1..n -> SummaryEntries] : n \in 0..MaxLines }

SummaryRubrics ==
    { [i \in 1..SummarySkills |-> RubricItem(TEMPLATE[i].id, TEMPLATE[i].skill, st[i])] :
        st \in [1..SummarySkills -> StatusSet] }

SummaryUsers == { None, Some(UserDetails("Ann", "555", "Intern")) }

InitSummary ==
    /\ session_status = "ended"
    /\ transcript \in SummaryTranscripts
    /\ rubric \in SummaryRubrics
    /\ suggested_update = None
    /\ start_time = None
    /\ duration_seconds = None
    /\ user_details \in SummaryUsers
    /\ summary_text = None
    /\ uploaded = None
    /\ camera_file = FALSE
    /\ saved_file = None
    /\ op = Event("init", 1)
    /\ trace_ops = FALSE

GenerateSummary ==
    /\ IsNone(summary_text)
    /\ summary_text' = Some(generate_local_summary(transcript, rubric, user_details))
    /\ UNCHANGED <<session_status, transcript, rubric, suggested_update, start_time,
                   duration_seconds, user_details, uploaded, camera_file, saved_file,
                   op, trace_ops>>

NextSummary == GenerateSummary

SpecSummary == InitSummary /\ [][NextSummary]_vars

-----------------------------------------------------------------------------
(* The claims *)

\* C1, as stated: within one session, once summary_text has been set, no
\* step other than Start New Session changes it or makes it absent.
C1_SummaryNeverChanges ==
    [][ (~IsNone(summary_text) /\ ~ClickStart) => summary_text' = summary_text ]_vars

\* C1, as amended: within one session, a summary_text that has been set is
\* changed by one operation only, Clear transcript & rubric, which makes it
\* absent; every other step leaves it as it is.
C1_SummaryChangedOnlyByClear ==
    [][ (~IsNone(summary_text) /\ summary_text' # summary_text)
            => (ClickStart \/ (ClickClear /\ IsNone(summary_text'))) ]_vars

\* A summary that was kept while the data it describes changed.
C1_Witness ==
    /\ session_status = "ended"
    /\ ~IsNone(summary_text)
    /\ Val(summary_text) # generate_local_summary(transcript, rubric, user_details)

\* C2, as stated: status changes only idle -> live, live -> ended and
\* ended -> live.
C2_StatusMachine ==
    [][ \/ session_status' = session_status
        \/ <<session_status, session_status'>> \in
             {<<"idle", "live">>, <<"live", "ended">>, <<"ended", "live">>} ]_vars

\* C2, as amended: status changes only idle -> live and ended -> live (Start
\* New Session), live -> ended (End Session, or the load of an uploaded
\* document), idle -> ended (the load of an uploaded document) and
\* ended -> idle (the welcome form, submitted after a load that brought no
\* user details).
C2_StatusTransitions ==
    [][ session_status' # session_status =>
          \/ /\ session_status \in {"idle", "ended"}
             /\ session_status' = "live"
             /\ ClickStart
          \/ /\ session_status = "live"
             /\ session_status' = "ended"
             /\ (ClickEnd \/ UploadFile)
          \/ /\ session_status = "idle"
             /\ session_status' = "ended"
             /\ UploadFile
          \/ /\ session_status = "ended"
             /\ session_status' = "idle"
             /\ SubmitWelcome ]_vars

\* A session that is ended and was never started: a load took it there
\* from idle.
C2_Witness ==
    /\ session_status = "ended"
    /\ IsNone(start_time)
    /\ ~IsNone(uploaded)

IsPrefix(a, b) == Len(a) <= Len(b) /\ SubSeq(b, 1, Len(a)) = a

\* C3: in every reachable state, a pending suggestion names the id of an
\* item of the current rubric.
C3_SuggestionNamesRubricItem ==
    ~IsNone(suggested_update) => Val(suggested_update).skillId \in Ids(rubric)

\* C4: a load that fails leaves transcript, rubric, user_details and status
\* as they were before the file was put into the uploader.
C4_FailedLoadChangesNothing ==
    [][ (UploadFile /\ ~camera_file /\ LoadFails(Val(uploaded')))
            => /\ transcript' = transcript
               /\ rubric' = rubric
               /\ user_details' = user_details
               /\ session_status' = session_status ]_vars

C9_NothingBeforeUserDetails ==
    IsNone(user_details)
        => /\ session_status = "idle"
           /\ transcript = << >>
           /\ rubric = FreshRubric

\* What bulk_resolve_pending is to make of a rubric.
PendingResolved(rb) ==
    [i \in 1..Len(rb) |->
       IF rb[i].status = PENDING THEN [rb[i] EXCEPT !.status = NOT_MET] ELSE rb[i]]

\* C5: when Propose suggestion for item a and status s is directly followed
\* by Accept suggestion, item a has status s, every other item is as it was,
\* exactly one system entry has been appended to the transcript, and the
\* pending suggestion is absent.
C5_ProposeThenAccept ==
    [][ (op.kind = "propose" /\ op.skill \in Ids(rubric) /\ op'.kind = "accept")
            => /\ Len(rubric') = Len(rubric)
               /\ \A i \in 1..Len(rubric) :
                     rubric'[i] = IF rubric[i].id = op.skill
                                  THEN [rubric[i] EXCEPT !.status = op.status]
                                  ELSE rubric[i]
               /\ Len(transcript') = Len(transcript) + 1
               /\ IsPrefix(transcript, transcript')
               /\ transcript'[Len(transcript')].speaker = "system"
               /\ IsNone(suggested_update') ]_vars

\* C6: the document Download session JSON or Save session writes holds the
\* transcript, rubric and user_details of the state it is written from, and
\* loading a document the program wrote makes transcript, rubric and
\* user_details equal to the document's, absent user_details included.
C6_RoundTrip ==
    [][ /\ (ClickDownload \/ ClickSave)
            => LET doc == load_session_from_bytes(Val(saved_file')) IN
               /\ doc.transcript = session_dump(user_details', transcript', rubric',
                                                summary_text').transcript
               /\ doc.rubric = session_dump(user_details', transcript', rubric',
                                            summary_text').rubric
               /\ doc.user_details = session_dump(user_details', transcript', rubric',
                                                  summary_text').user_details
        /\ (UploadFile /\ ~IsNone(saved_file) /\ uploaded' = saved_file)
            => LET doc == load_session_from_bytes(Val(saved_file)) IN
               session_dump(user_details', transcript', rubric', summary_text')
                 = [doc EXCEPT !.summary = summary_text'] ]_vars

\* C8: Add to transcript with a text that is empty after trimming leaves the
\* transcript as it was; with any other text it appends one entry, the
\* speaker and the trimmed text of the call, at the end.
C8_AppendTranscriptEntry ==
    [][ op'.kind = "add_transcript"
            => transcript' = IF Strip(op'.text) = << >>
                             THEN transcript
                             ELSE Append(transcript,
                                         TranscriptEntry(op'.speaker, Strip(op'.text),
                                                         op'.t)) ]_vars

\* C10: Mark all pending as not met turns every pending item into not_met,
\* leaves every other item, the transcript, the pending suggestion, the
\* summary and the status as they were, and the page run that follows
\* leaves the rubric as it is.
C10_BulkResolvePending ==
    [][ /\ op'.kind = "bulk"
            => /\ rubric' = PendingResolved(rubric)
               /\ transcript' = transcript
               /\ suggested_update' = suggested_update
               /\ summary_text' = summary_text
               /\ session_status' = session_status
        /\ (op.kind = "bulk" /\ op'.kind = "clear_saved")
            => rubric' = rubric ]_vars

\* C11: after Start New Session, from any reachable state, the transcript
\* is empty, the rubric is the initial template with every item pending, the
\* pending suggestion and summary_text are absent, and status is live.
C11_StartGivesFreshSession ==
    [][ ClickStart
            => /\ transcript' = << >>
               /\ rubric' = FreshRubric
               /\ IsNone(suggested_update')
               /\ IsNone(summary_text')
               /\ session_status' = "live" ]_vars

\* C12: Clear transcript & rubric makes the transcript empty, the rubric the
\* initial template with every item pending and summary_text absent, and
\* leaves session status, start_time and user_details as they were.
C12_ClearSessionData ==
    [][ ClickClear
            => /\ transcript' = << >>
               /\ rubric' = FreshRubric
               /\ IsNone(summary_text')
               /\ session_status' = session_status
               /\ start_time' = start_time
               /\ user_details' = user_details ]_vars

\* An ended session that was started, cleared: no summary, and the start
\* time still there.
C12_Witness ==
    /\ session_status = "ended"
    /\ ~IsNone(start_time)
    /\ ~IsNone(user_details)
    /\ IsNone(summary_text)
    /\ transcript = << >>
    /\ rubric = FreshRubric

\* C13: the summary is a function of transcript and rubric alone: whatever
\* the user details are, the text computed is the same.
C13_SummaryOfTranscriptAndRubricOnly ==
    ~IsNone(summary_text)
        => \A ud \in SummaryUsers :
              Val(summary_text) = generate_local_summary(transcript, rubric, ud)

\* The k-th element, in increasing order, of a set of indices.
Nth(S, k) == CHOOSE i \in S : Cardinality({j \in S : j < i}) = k - 1

\* The texts of the last three entries of speaker user, in transcript order.
QuotedIdx(tr) ==
    LET U == {i \in 1..Len(tr) : tr[i].speaker = "user"}
    IN  {i \in U : Cardinality({j \in U : j > i}) < 3}
ExpectedNotes(tr) ==
    [k \in 1..Cardinality(QuotedIdx(tr)) |-> tr[Nth(QuotedIdx(tr), k)].text]

\* The skills of the items of one status, in rubric order.
StatusIdx(rb, status) == {i \in 1..Len(rb) : rb[i].status = status}
ExpectedSkills(rb, status) ==
    [k \in 1..Cardinality(StatusIdx(rb, status)) |->
       <<rb[Nth(StatusIdx(rb, status), k)].skill>>]

IsNotesLine(l) == l[1] = "Notes from the session: "
IsStrengthsLine(l) == l[1] = "Strengths: "
IsNeedsLine(l) == l[1] = "Areas for improvement: "

\* C14: the notes section of the summary quotes exactly the last min(3, n)
\* user entries in transcript order and is left out when there are none;
\* the Strengths section lists exactly the skills of the met items and the
\* Areas for improvement section those of the not_met items, each in rubric
\* order and left out when empty; pending items are in neither.
C14_SummarySections ==
    ~IsNone(summary_text)
        => LET sm == Val(summary_text) IN
           /\ SelectSeq(sm, IsNotesLine) =
                IF ExpectedNotes(transcript) = << >> THEN << >>
                ELSE << <<"Notes from the session: ">>
                        \o Join(ExpectedNotes(transcript), <<" / ">>) >>
           /\ SelectSeq(sm, IsStrengthsLine) =
                IF ExpectedSkills(rubric, MET) = << >> THEN << >>
                ELSE << <<"Strengths: ">>
                        \o Join(ExpectedSkills(rubric, MET), <<", ">>) \o <<".">> >>
           /\ SelectSeq(sm, IsNeedsLine) =
                IF ExpectedSkills(rubric, NOT_MET) = << >> THEN << >>
                ELSE << <<"Areas for improvement: ">>
                        \o Join(ExpectedSkills(rubric, NOT_MET), <<", ">>) \o <<".">> >>

\* A summary of a transcript with more than three user entries, not all the
\* same, and of a rubric with a met and a not_met item.
C14_Witness ==
    /\ ~IsNone(summary_text)
    /\ Cardinality({i \in 1..Len(transcript) : transcript[i].speaker = "user"}) > 3
    /\ transcript[1].text # transcript[Len(transcript)].text
    /\ StatusIdx(rubric, MET) # {}
    /\ StatusIdx(rubric, NOT_MET) # {}

\* Whether a click on Start New Session finds its button in the page.
StartOffered == \E t \in Times : Gesture(Cur, Event("start", t)).fired

C16_RubricWellFormed ==
    /\ \A i, j \in 1..Len(rubric) : rubric[i].id = rubric[j].id => i = j
    /\ \A i \in 1..Len(rubric) : rubric[i].status \in StatusSet

\* What a successful load of document b is to leave in all but summary_text.
LoadFrame(b) ==
    LET doc == load_session_from_bytes(b) IN
    /\ session_status' = "ended"
    /\ suggested_update' = suggested_update
    /\ start_time' = start_time
    /\ duration_seconds' = duration_seconds
    /\ user_details' = IF ~IsNone(doc.user_details)
                       THEN Some(UserDetails(Val(doc.user_details).name,
                                             Val(doc.user_details).phone,
                                             Val(doc.user_details).designation))
                       ELSE user_details

\* C17, as stated: a successful load sets status to ended, sets user_details
\* only from a document that carries them, and leaves summary_text, the
\* pending suggestion, start_time and duration_seconds as they were.
C17_LoadKeepsSummary ==
    [][ (UploadFile /\ ~LoadFails(Val(uploaded')))
            => /\ LoadFrame(Val(uploaded'))
               /\ summary_text' = summary_text ]_vars

\* C17, as amended: a successful load sets status to ended, sets
\* user_details only from a document that carries them, and leaves the
\* pending suggestion, start_time and duration_seconds as they were; a
\* summary_text that was present is kept, one that was absent stays absent
\* while no user details are set and is otherwise left absent or computed
\* from the loaded data; the document's summary is never restored.
C17_LoadKeepsPresentSummary ==
    [][ (UploadFile /\ ~LoadFails(Val(uploaded')))
            => /\ LoadFrame(Val(uploaded'))
               /\ ~IsNone(summary_text) => summary_text' = summary_text
               /\ IsNone(summary_text)
                    => \/ IsNone(summary_text')
                       \/ /\ ~IsNone(user_details')
                          /\ summary_text' = Some(generate_local_summary(
                                                    transcript', rubric', user_details')) ]_vars

\* After a load into a session that was never started: ended, the pending
\* suggestion still there, the summary computed.
C17_Witness ==
    /\ session_status = "ended"
    /\ ~IsNone(uploaded)
    /\ ~LoadFails(Val(uploaded))
    /\ IsNone(start_time)
    /\ ~IsNone(suggested_update)
    /\ ~IsNone(summary_text)

====
